---- MODULE Spec2Model ----
(***************************************************************************)
(* A model of py-spy's src/python_spy.rs: the PythonSpy session            *)
(* (new / retry_new / get_stack_traces), the interpreter-address locator   *)
(* (get_interpreter_address, check_addresses) and the Version parser and   *)
(* printer (Version::scan_bytes, Display for Version).                     *)
(*                                                                         *)
(* Strings and byte buffers are sequences of one-character strings.        *)
(* Results of fallible calls are records [ok |-> TRUE, val |-> v] or       *)
(* [ok |-> FALSE, err |-> e].                                              *)
(***************************************************************************)
EXTENDS Integers, Sequences, FiniteSets, TLC

VARIABLES
    target,       \* the target process as the last operation saw it (symbols, memory)
    pc,           \* the caller: "start", "retrying", "sleeping", "opened", "failed"
    caller,       \* which constructor the caller used: "none", "new", "retry_new"
    session,      \* the PythonSpy the caller holds, if any
    built,        \* that PythonSpy as its constructor returned it
    max_retries,  \* retry_new's argument
    retries,      \* retry_new's local counter
    attempts,     \* how many times retry_new's loop body has run
    attempt,      \* what new and the smoke test returned in the last iteration
    openRet,      \* what new / retry_new returned, or NotRun
    sampleRet,    \* what the last get_stack_traces returned, or NotSampled
    failedBefore, \* some get_stack_traces of this session failed on a read or walk
    scanRet,      \* the result of the last BSS scan run on its own, or NotRun
    subject,      \* version harness: the Version whose printed form is scanned
    buf,          \* version harness: the bytes handed to Version::scan_bytes
    scanned,      \* version harness: the result of Version::scan_bytes, or NotRun
    filename,     \* the filename handed to shorten_filename
    shortened     \* what shorten_filename returned, or NotRun

sessionVars ==
    <<pc, caller, session, built, max_retries, retries, attempts, attempt,
      openRet, sampleRet, failedBefore>>

scanVars == <<target, scanRet>>

versionVars == <<subject, buf, scanned>>

shortenVars == <<filename, shortened>>

vars == <<target, sessionVars, scanRet, versionVars, shortenVars>>

NotRun == [ok |-> FALSE, err |-> "not run"]

Ok(v) == [ok |-> TRUE, val |-> v]

Err(e) == [ok |-> FALSE, err |-> e]

(***************************************************************************)
(* Characters.  The regex is a regex::bytes::Regex in its default Unicode  *)
(* mode: \d is any Unicode decimal digit, \D any other scalar value, and   *)
(* . any scalar value but a newline; a byte that is not part of valid      *)
(* UTF-8 matches none of them.                                             *)
(***************************************************************************)
AsciiDigit == {"0", "1", "2", "3", "4", "5", "6", "7", "8", "9"}

\* a decimal digit outside ASCII (ARABIC-INDIC DIGIT THREE), one character
OtherDigit == {"U+0663"}

\* a byte that is not valid UTF-8
InvalidByte == "0xFF"

\* what indexing past the end of the data yields: no character at all
EndOfData == "EOF"

IsDigit(c) == c \in AsciiDigit \cup OtherDigit

IsNonDigit(c) == ~IsDigit(c) /\ c # InvalidByte /\ c # EndOfData

IsAny(c) == c # "\n" /\ c # InvalidByte /\ c # EndOfData

At(d, i) == IF i \in 1..Len(d) THEN d[i] ELSE EndOfData

(***************************************************************************)
(* impl Display for Version: "{}.{}.{}{}" of major, minor, patch (u64,     *)
(* printed in decimal) and release_flags.                                  *)
(***************************************************************************)
DigitChar(n) == <<"0", "1", "2", "3", "4", "5", "6", "7", "8", "9">>[n + 1]

RECURSIVE Decimal(_)
Decimal(n) ==
    IF n < 10 THEN <<DigitChar(n)>>
    ELSE Decimal(n \div 10) \o <<DigitChar(n % 10)>>

fmt(v) ==
    Decimal(v.major) \o <<".">> \o Decimal(v.minor) \o <<".">>
        \o Decimal(v.patch) \o v.release_flags

(***************************************************************************)
(* Version::scan_bytes.  The regex                                         *)
(*   (?:\D|^)((\d)\.(\d)\.(\d{1,2}))((a|b|c|rc)\d{1,2})? (.{1,64})         *)
(* is matched leftmost-first: the match with the smallest start, and at    *)
(* that start the first alternative in the regex's preference order        *)
(* (greedy repetitions first).                                             *)
(***************************************************************************)
\* (\d)\.(\d)\.(\d{1,2}) at j, the patch taking pl digits
HeadOK(d, j, pl) ==
    /\ IsDigit(At(d, j))
    /\ At(d, j + 1) = "."
    /\ IsDigit(At(d, j + 2))
    /\ At(d, j + 3) = "."
    /\ \A i \in 0..(pl - 1) : IsDigit(At(d, j + 4 + i))

\* (a|b|c) alone, the rc alternative lost
LetterLenWithoutRc(d, k) ==
    IF At(d, k) \in {"a", "b", "c"} THEN 1 ELSE 0

\* the length of (a|b|c|rc) at k, 0 when none of them is there
LetterLen(d, k) ==
    IF At(d, k) \in {"a", "b", "c"} THEN 1
    ELSE IF At(d, k) = "r" /\ At(d, k + 1) = "c" THEN 2
    ELSE 0

\* the length of ((a|b|c|rc)\d{1,2}) at k with nd digits, 0 when it does not match
Group5Len(d, k, nd) ==
    LET ll == LetterLen(d, k)
    IN  IF ll > 0 /\ \A i \in 0..(nd - 1) : IsDigit(At(d, k + ll + i))
        THEN ll + nd ELSE 0

\* " (.{1,64})" at e: a space and at least one character
TailOK(d, e) == At(d, e) = " " /\ IsAny(At(d, e + 1))

\* the ways to match the repetitions, in the regex's order of preference:
\* pl digits of patch, then group 5 with fd digits (fd = 0: group 5 absent)
Alternatives ==
    << [pl |-> 2, fd |-> 2], [pl |-> 2, fd |-> 1], [pl |-> 2, fd |-> 0],
       [pl |-> 1, fd |-> 2], [pl |-> 1, fd |-> 1], [pl |-> 1, fd |-> 0] >>

AltMatches(d, j, alt) ==
    /\ HeadOK(d, j, alt.pl)
    /\ LET k == j + 4 + alt.pl
           g == IF alt.fd = 0 THEN 0 ELSE Group5Len(d, k, alt.fd)
       IN  (alt.fd = 0 \/ g > 0) /\ TailOK(d, k + g)

\* the first alternative matching the version at j, 0 when none does
MatchAt(d, j) ==
    IF \E a \in 1..Len(Alternatives) : AltMatches(d, j, Alternatives[a])
    THEN CHOOSE a \in 1..Len(Alternatives) :
            /\ AltMatches(d, j, Alternatives[a])
            /\ \A b \in 1..(a - 1) : ~AltMatches(d, j, Alternatives[b])
    ELSE 0

\* the regex without its (?:\D|^) head: the version may start anywhere
VersionPosUnanchored(d, i) ==
    IF MatchAt(d, i) # 0 THEN i ELSE 0

\* where group 1 starts for a match starting at i, 0 when no match starts at i:
\* (?:\D|^) either consumes a non-digit at i or is the start of the data
VersionPos(d, i) ==
    IF IsNonDigit(At(d, i)) /\ MatchAt(d, i + 1) # 0 THEN i + 1
    ELSE IF i = 1 /\ MatchAt(d, 1) # 0 THEN 1
    ELSE 0

\* str::parse::<u64> of a run of \d characters: ASCII digits only
ParseU64(s) ==
    IF \A i \in 1..Len(s) : s[i] \in AsciiDigit
    THEN Ok(IF Len(s) = 1
            THEN (CHOOSE n \in 0..9 : DigitChar(n) = s[1])
            ELSE 10 * (CHOOSE n \in 0..9 : DigitChar(n) = s[1])
                 + (CHOOSE n \in 0..9 : DigitChar(n) = s[2]))
    ELSE Err("invalid digit found in string")

\* the Version of the captures: groups 2, 3 and 4 parsed, group 5 as it is
captured_version(major, minor, patch, release) ==
    IF ~major.ok THEN major
    ELSE IF ~minor.ok THEN minor
    ELSE IF ~patch.ok THEN patch
    ELSE Ok([major |-> major.val, minor |-> minor.val,
             patch |-> patch.val, release_flags |-> release])

\* the captures of the match whose group 1 starts at j, matched the way alt says
captures(d, j, alt, g) ==
    captured_version(ParseU64(SubSeq(d, j, j)),
                     ParseU64(SubSeq(d, j + 2, j + 2)),
                     ParseU64(SubSeq(d, j + 4, j + 3 + alt.pl)),
                     SubSeq(d, j + 4 + alt.pl, j + 3 + alt.pl + g))

first_captures(d, j, alt) ==
    captures(d, j, alt,
             IF alt.fd = 0 THEN 0 ELSE Group5Len(d, j + 4 + alt.pl, alt.fd))

\* the start of the leftmost match
FirstMatch(d) ==
    CHOOSE x \in 1..Len(d) :
        /\ VersionPos(d, x) # 0
        /\ \A y \in 1..(x - 1) : VersionPos(d, y) = 0

captures_at(d, j) == first_captures(d, j, Alternatives[MatchAt(d, j)])

scan_bytes(d) ==
    IF \E i \in 1..Len(d) : VersionPos(d, i) # 0
    THEN captures_at(d, VersionPos(d, FirstMatch(d)))
    ELSE Err("failed to find version string")

(***************************************************************************)
(* The target process.  Its memory is read through typed views: a          *)
(* pointer-sized word, an InterpreterState (its head()), a ThreadState     *)
(* (its interp(), thread_id(), next(), and whether its frame chain can be  *)
(* walked), and the BSS of a binary (as text and as pointer-sized words).  *)
(* A cell that cannot be read is [readable |-> FALSE]; an address outside  *)
(* a view's domain cannot be read either.                                  *)
(***************************************************************************)
None == [some |-> FALSE]

Some(v) == [some |-> TRUE, val |-> v]

NoCell == [readable |-> FALSE]

PtrCell(p) == [readable |-> TRUE, value |-> p]

InterpCell(h) == [readable |-> TRUE, head |-> h]

ThreadCell(i, id, n, f) ==
    [readable |-> TRUE, interp |-> i, thread_id |-> id, next |-> n, frames_ok |-> f]

BssCell(t, w) == [readable |-> TRUE, text |-> t, words |-> w]

ReadFailed == "remote read failed"

\* utils::copy_struct / copy_pointer / read_process_memory::copy_address
CopyCell(cells, a) ==
    IF a \in DOMAIN cells /\ cells[a].readable THEN Ok(cells[a]) ELSE Err(ReadFailed)

\* copy_struct::<usize>
copy_usize(mem, a) ==
    LET c == CopyCell(mem.ptr, a) IN IF c.ok THEN Ok(c.val.value) ELSE c

\* copy_struct::<I> for I: InterpreterState
copy_interp(mem, a) == CopyCell(mem.interp, a)

\* copy_struct::<I::ThreadState> and copy_pointer of a thread pointer
copy_thread(mem, a) == CopyCell(mem.thread, a)

\* copy_address(binary.bss_addr, binary.bss_size)
copy_bss(mem, binary) == CopyCell(mem.bss, binary.name)

\* proc_maps::maps_contain_addr, the map ranges taken as the set of their addresses
maps_contain_addr(addr, maps) == addr \in maps

(***************************************************************************)
(* stack_trace::get_stack_traces, the stack walker: follows the thread     *)
(* chain from interp.head() until a null pointer, reading each ThreadState *)
(* and walking its frames; one StackTrace per thread, owns_gil false.      *)
(* The walk is capped and keeps a visited set.                             *)
(***************************************************************************)
MaxThreadsWalked == 4096

RECURSIVE walk_threads(_, _, _, _)
walk_threads(mem, threads, visited, ret) ==
    IF threads = 0 THEN Ok(ret)
    ELSE IF threads \in visited \/ Len(ret) >= MaxThreadsWalked
    THEN Err("Max thread recursion depth reached")
    ELSE LET thread == copy_thread(mem, threads)
         IN  IF ~thread.ok THEN Err("Failed to copy PyThreadState")
             ELSE IF ~thread.val.frames_ok THEN Err("Failed to walk the frames")
             ELSE walk_threads(mem, thread.val.next, visited \cup {threads},
                     Append(ret, [thread_id |-> thread.val.thread_id,
                                  owns_gil |-> FALSE]))

walk_stack_traces(interp, mem) == walk_threads(mem, interp.head, {}, <<>>)

(***************************************************************************)
(* check_addresses::<I>: scans the pointer-sized words of a binary's BSS   *)
(* for the address of a PyInterpreterState.  The result also names the     *)
(* layout I the function was instantiated with.                            *)
(***************************************************************************)
Layouts == {"v2_7_15", "v3_3_7", "v3_5_5", "v3_6_6", "v3_7_0"}

NoLayout == "none"

WithLayout(r, I) ==
    IF r.ok THEN [ok |-> TRUE, val |-> r.val, layout |-> I]
    ELSE [ok |-> FALSE, err |-> r.err, layout |-> I]

\* the for loop over addrs, from its i-th word on
RECURSIVE check_words_unvalidated(_, _, _, _)
check_words_unvalidated(addrs, maps, mem, i) ==
    IF i > Len(addrs)
    THEN Err("Failed to find a python interpreter in the .data section")
    ELSE LET addr == addrs[i]
             interp == copy_interp(mem, addr)
             threads == interp.val.head
             thread == copy_thread(mem, threads)
         IN  IF ~maps_contain_addr(addr, maps)
             THEN check_words_unvalidated(addrs, maps, mem, i + 1)
             ELSE IF ~interp.ok THEN interp
             ELSE IF ~maps_contain_addr(threads, maps)
             THEN check_words_unvalidated(addrs, maps, mem, i + 1)
             ELSE IF ~thread.ok THEN thread
             ELSE IF walk_stack_traces(interp.val, mem).ok
             THEN Ok(addr)
             ELSE check_words_unvalidated(addrs, maps, mem, i + 1)

RECURSIVE check_words(_, _, _, _)
check_words(addrs, maps, mem, i) ==
    IF i > Len(addrs)
    THEN Err("Failed to find a python interpreter in the .data section")
    ELSE LET addr == addrs[i]
             interp == copy_interp(mem, addr)
             threads == interp.val.head
             thread == copy_thread(mem, threads)
         IN  IF ~maps_contain_addr(addr, maps)
             THEN check_words(addrs, maps, mem, i + 1)
             ELSE IF ~interp.ok THEN interp
             ELSE IF ~maps_contain_addr(threads, maps)
             THEN check_words(addrs, maps, mem, i + 1)
             ELSE IF ~thread.ok THEN thread
             ELSE IF thread.val.interp = addr /\ walk_stack_traces(interp.val, mem).ok
             THEN Ok(addr)
             ELSE check_words(addrs, maps, mem, i + 1)

check_addresses(binary, maps, mem, I) ==
    LET bss == copy_bss(mem, binary)
    IN  WithLayout(IF ~bss.ok THEN bss
                   ELSE check_words(bss.val.words, maps, mem, 1), I)

(***************************************************************************)
(* PythonProcessInfo::get_symbol: the main binary's symbol first, then     *)
(* libpython's.  A symbol table is a set of [name, addr] with unique names.*)
(***************************************************************************)
Lookup(symbols, symbol) ==
    IF \E s \in symbols : s.name = symbol
    THEN Some((CHOOSE s \in symbols : s.name = symbol).addr)
    ELSE None

get_symbol(python_info, symbol) ==
    IF Lookup(python_info.python_binary.symbols, symbol).some
    THEN Lookup(python_info.python_binary.symbols, symbol)
    ELSE IF python_info.libpython_binary.some
    THEN Lookup(python_info.libpython_binary.val.symbols, symbol)
    ELSE None

(***************************************************************************)
(* get_python_version: the 128 bytes at Py_GetVersion.version when the     *)
(* symbol is there; else the main binary's BSS and, when that holds no     *)
(* version, libpython's.                                                   *)
(***************************************************************************)
\* Version::scan_bytes(&copy_address(..)?)
scan_copied(bytes) ==
    IF ~bytes.ok THEN Err(bytes.err) ELSE scan_bytes(bytes.val.text)

\* the match on the main scan's result
version_or_libpython(python_info, mem, main) ==
    IF main.ok THEN main
    ELSE IF python_info.libpython_binary.some
    THEN scan_copied(copy_bss(mem, python_info.libpython_binary.val))
    ELSE main

version_from_bss(python_info, mem, bss) ==
    IF ~bss.ok THEN Err(bss.err)
    ELSE version_or_libpython(python_info, mem, scan_bytes(bss.val.text))

get_python_version(python_info, mem) ==
    IF get_symbol(python_info, "Py_GetVersion.version").some
    THEN scan_copied(CopyCell(mem.version_bytes,
                              get_symbol(python_info, "Py_GetVersion.version").val))
    ELSE version_from_bss(python_info, mem, copy_bss(mem, python_info.python_binary))

(***************************************************************************)
(* get_interpreter_address_from_binary: the layout the BSS scan is         *)
(* instantiated with, by version.                                          *)
(***************************************************************************)
UnsupportedVersion == "Unsupported version of Python"

\* the match arms with the 3.4 arm lost
binary_layout_without_3_4(version) ==
    CASE version.major = 3 /\ version.minor = 8 -> "v3_7_0"
      [] version.major = 3 /\ version.minor = 7 -> "v3_7_0"
      [] version.major = 3 /\ version.minor = 6 -> "v3_6_6"
      [] version.major = 3 /\ version.minor = 5 -> "v3_5_5"
      [] version.major = 3 /\ version.minor = 3 -> "v3_3_7"
      [] version.major = 2 /\ version.minor \in 3..7 -> "v2_7_15"
      [] OTHER -> NoLayout

\* the match arms: the layout check_addresses is instantiated with
binary_layout(version) ==
    CASE version.major = 3 /\ version.minor = 8 -> "v3_7_0"
      [] version.major = 3 /\ version.minor = 7 -> "v3_7_0"
      [] version.major = 3 /\ version.minor = 6 -> "v3_6_6"
      [] version.major = 3 /\ version.minor = 5 -> "v3_5_5"
      [] version.major = 3 /\ version.minor = 4 -> "v3_5_5"
      [] version.major = 3 /\ version.minor = 3 -> "v3_3_7"
      [] version.major = 2 /\ version.minor \in 3..7 -> "v2_7_15"
      [] OTHER -> NoLayout

get_interpreter_address_from_binary(binary, maps, mem, version) ==
    IF binary_layout(version) = NoLayout
    THEN WithLayout(Err(UnsupportedVersion), NoLayout)
    ELSE check_addresses(binary, maps, mem, binary_layout(version))

(***************************************************************************)
(* get_interpreter_address: through a symbol when there is one, else the   *)
(* BSS scan of the main binary, then of libpython.                         *)
(***************************************************************************)
PyRuntimeInterpretersHead == 24

\* .context("Failed to copy PyInterpreterState location from process")
located_by_interp_head(addr) ==
    IF addr.ok THEN addr
    ELSE Err("Failed to copy PyInterpreterState location from process")

\* the match on the main binary's scan
address_or_libpython(python_info, mem, version, main) ==
    IF main.ok THEN Ok(main.val)
    ELSE IF python_info.libpython_binary.some
    THEN get_interpreter_address_from_binary(
             python_info.libpython_binary.val, python_info.maps, mem, version)
    ELSE Err(main.err)

\* Ok(get_interpreter_address_from_binary(..)?): the address, or the error
address_of(found) == IF found.ok THEN Ok(found.val) ELSE Err(found.err)

get_interpreter_address(python_info, mem, version) ==
    IF version.major = 3 /\ version.minor = 7
           /\ get_symbol(python_info, "_PyRuntime").some
    THEN copy_usize(mem, get_symbol(python_info, "_PyRuntime").val
                             + PyRuntimeInterpretersHead)
    ELSE IF ~(version.major = 3 /\ version.minor = 7)
           /\ get_symbol(python_info, "interp_head").some
    THEN located_by_interp_head(
             copy_usize(mem, get_symbol(python_info, "interp_head").val))
    ELSE address_of(address_or_libpython(python_info, mem, version,
             get_interpreter_address_from_binary(
                 python_info.python_binary, python_info.maps, mem, version)))

(***************************************************************************)
(* PythonSpy::new                                                          *)
(***************************************************************************)
LastSlash(p) ==
    IF \E i \in 1..Len(p) : p[i] = "/"
    THEN CHOOSE i \in 1..Len(p) : p[i] = "/" /\ \A j \in (i + 1)..Len(p) : p[j] # "/"
    ELSE 0

\* Path::parent of a normalised path
Parent(p) ==
    IF p = <<>> \/ p = <<"/">> THEN None
    ELSE IF LastSlash(p) = 0 THEN Some(<<>>)
    ELSE IF LastSlash(p) = 1 THEN Some(<<"/">>)
    ELSE Some(SubSeq(p, 1, LastSlash(p) - 1))

EndsWith(p, s) ==
    Len(p) >= Len(s) /\ SubSeq(p, Len(p) - Len(s) + 1, Len(p)) = s

\* the path left after the "/bin" check, given the binary's parent directory
install_path_above(parent) ==
    IF EndsWith(parent, <<"/", "b", "i", "n">>) /\ Parent(parent).some
    THEN Parent(parent).val
    ELSE parent

python_install_path(python_filename) ==
    IF ~Parent(python_filename).some THEN python_filename
    ELSE install_path_above(Parent(python_filename).val)

version_string(version) ==
    <<"p", "y", "t", "h", "o", "n">> \o Decimal(version.major) \o <<".">>
        \o Decimal(version.minor)

\* new from the point where the interpreter address has been looked for
new_located(pid, python_info, version, interpreter_address, threadstate) ==
    IF ~interpreter_address.ok THEN Err(interpreter_address.err)
    ELSE Ok([pid |-> pid,
             version |-> version,
             interpreter_address |-> interpreter_address.val,
             threadstate_address |-> IF threadstate.some THEN threadstate.val ELSE 0,
             python_filename |-> python_info.python_filename,
             python_install_path |-> python_install_path(python_info.python_filename),
             version_string |-> version_string(version)])

\* new from the point where the version has been looked for
new_versioned(pid, python_info, mem, version) ==
    IF ~version.ok THEN Err(version.err)
    ELSE new_located(pid, python_info, version.val,
                     get_interpreter_address(python_info, mem, version.val),
                     get_symbol(python_info, "_PyThreadState_Current"))

new(pid, env) ==
    IF ~env.handle THEN Err("Failed to open target process")
    ELSE IF ~env.python_info.ok THEN Err(env.python_info.err)
    ELSE new_versioned(pid, env.python_info.val, env.mem,
                       get_python_version(env.python_info.val, env.mem))

(***************************************************************************)
(* PythonSpy::_get_stack_traces::<I>.  The result also names the layout I  *)
(* and the remote reads issued, in order.                                  *)
(***************************************************************************)
Sampled(r, I, reads) ==
    IF r.ok THEN [ok |-> TRUE, val |-> r.val, layout |-> I, reads |-> reads]
    ELSE [ok |-> FALSE, err |-> r.err, layout |-> I, reads |-> reads]

\* the annotation loop: owns_gil for the traces of the thread holding the GIL
annotate(traces, gil_thread_id) ==
    [i \in 1..Len(traces) |->
        IF traces[i].thread_id = gil_thread_id
        THEN [traces[i] EXCEPT !.owns_gil = TRUE]
        ELSE traces[i]]

\* from "Get the stack traces for each thread" on, gil_thread_id known
traces_annotated(mem, I, gil_thread_id, reads, interp) ==
    IF ~interp.ok
    THEN Sampled(Err("Failed to copy PyInterpreterState from process"), I,
                 reads \o <<"interpreter">>)
    ELSE IF ~walk_stack_traces(interp.val, mem).ok
    THEN Sampled(walk_stack_traces(interp.val, mem), I,
                 reads \o <<"interpreter", "walk">>)
    ELSE Sampled(Ok(annotate(walk_stack_traces(interp.val, mem).val, gil_thread_id)),
                 I, reads \o <<"interpreter", "walk">>)

\* the thread state _PyThreadState_Current points to has been read
gil_from_threadstate(self, mem, I, threadstate) ==
    IF ~threadstate.ok
    THEN Sampled(threadstate, I, <<"gil_pointer", "gil_threadstate">>)
    ELSE traces_annotated(mem, I, threadstate.val.thread_id,
                          <<"gil_pointer", "gil_threadstate">>,
                          copy_interp(mem, self.interpreter_address))

\* the same with a failed read of _PyThreadState_Current taken for "no holder"
gil_from_pointer_failure_ignored(self, mem, I, addr) ==
    IF ~addr.ok
    THEN traces_annotated(mem, I, 0, <<"gil_pointer">>,
                          copy_interp(mem, self.interpreter_address))
    ELSE IF addr.val # 0
    THEN gil_from_threadstate(self, mem, I, copy_thread(mem, addr.val))
    ELSE traces_annotated(mem, I, 0, <<"gil_pointer">>,
                          copy_interp(mem, self.interpreter_address))

\* _PyThreadState_Current has been read
gil_from_pointer(self, mem, I, addr) ==
    IF ~addr.ok THEN Sampled(addr, I, <<"gil_pointer">>)
    ELSE IF addr.val # 0
    THEN gil_from_threadstate(self, mem, I, copy_thread(mem, addr.val))
    ELSE traces_annotated(mem, I, 0, <<"gil_pointer">>,
                          copy_interp(mem, self.interpreter_address))

_get_stack_traces(self, mem, I) ==
    IF self.threadstate_address > 0
    THEN gil_from_pointer(self, mem, I, copy_usize(mem, self.threadstate_address))
    ELSE traces_annotated(mem, I, 0, <<>>,
                          copy_interp(mem, self.interpreter_address))

(***************************************************************************)
(* PythonSpy::get_stack_traces: the layout by the session's version.       *)
(***************************************************************************)
\* the match arms with 3.4 on the 3.3 layout
stack_traces_layout_3_4_as_3_3(version) ==
    CASE version.major = 3 /\ version.minor = 8 -> "v3_7_0"
      [] version.major = 3 /\ version.minor = 7 -> "v3_7_0"
      [] version.major = 3 /\ version.minor = 6 -> "v3_6_6"
      [] version.major = 3 /\ version.minor = 5 -> "v3_5_5"
      [] version.major = 3 /\ version.minor \in 3..4 -> "v3_3_7"
      [] version.major = 2 /\ version.minor \in 3..7 -> "v2_7_15"
      [] OTHER -> NoLayout

\* the match arms: the layout _get_stack_traces is instantiated with
stack_traces_layout(version) ==
    CASE version.major = 3 /\ version.minor = 8 -> "v3_7_0"
      [] version.major = 3 /\ version.minor = 7 -> "v3_7_0"
      [] version.major = 3 /\ version.minor = 6 -> "v3_6_6"
      [] version.major = 3 /\ version.minor = 5 -> "v3_5_5"
      [] version.major = 3 /\ version.minor = 4 -> "v3_5_5"
      [] version.major = 3 /\ version.minor = 3 -> "v3_3_7"
      [] version.major = 2 /\ version.minor \in 3..7 -> "v2_7_15"
      [] OTHER -> NoLayout

get_stack_traces(self, mem) ==
    IF stack_traces_layout(self.version) = NoLayout
    THEN Sampled(Err(UnsupportedVersion), NoLayout, <<>>)
    ELSE _get_stack_traces(self, mem, stack_traces_layout(self.version))

(***************************************************************************)
(* PythonSpy::shorten_filename.  &filename[n..] is the filename from its   *)
(* n-th byte on and panics when n is beyond its length; the result here    *)
(* is Ok of the slice or the panic.                                        *)
(***************************************************************************)
SliceOutOfRange == "byte index is out of bounds"

StartsWith(f, prefix) ==
    Len(f) >= Len(prefix) /\ SubSeq(f, 1, Len(prefix)) = prefix

\* &filename[n..]
slice_from(f, n) ==
    IF n <= Len(f) THEN Ok(SubSeq(f, n + 1, Len(f))) ELSE Err(SliceOutOfRange)

\* if filename.starts_with("site-packages") { filename = &filename[14..]; }
after_site_packages(f) ==
    IF ~f.ok THEN f
    ELSE IF StartsWith(f.val, <<"s", "i", "t", "e", "-", "p", "a", "c", "k", "a", "g", "e", "s">>)
    THEN slice_from(f.val, 14)
    ELSE f

\* if filename.starts_with(&self.version_string) { .. }
after_version_string(self, f) ==
    IF ~f.ok THEN f
    ELSE IF StartsWith(f.val, self.version_string)
    THEN slice_from(f.val, Len(self.version_string) + 1)
    ELSE f

\* if filename.starts_with("lib") { filename = &filename[4..]; .. }
after_lib(self, f) ==
    IF ~f.ok THEN f
    ELSE IF StartsWith(f.val, <<"l", "i", "b">>)
    THEN after_site_packages(after_version_string(self, slice_from(f.val, 4)))
    ELSE f

shorten_filename(self, f) ==
    IF StartsWith(f, self.python_install_path)
    THEN after_lib(self, slice_from(f, Len(self.python_install_path) + 1))
    ELSE Ok(f)

\* get_stack_traces borrows the session immutably (&self): the session after
\* a call, whatever the call returned, is the session before it
SessionAfterSamplePoisoned(self, ret) ==
    IF ret.ok THEN self ELSE [self EXCEPT !.interpreter_address = 0]

SessionAfterSample(self, ret) == self

(***************************************************************************)
(* One iteration of retry_new's loop: new, then the smoke test.  It        *)
(* returns the session, or leaves the error of this iteration.             *)
(***************************************************************************)
NotSampled == [ok |-> FALSE, err |-> "not run", layout |-> NoLayout, reads |-> <<>>]

\* the inner match, on the smoke test's result
smoke_tested(process, traces) ==
    IF traces.ok
    THEN [returned |-> TRUE, process |-> process.val, new |-> process, sample |-> traces]
    ELSE [returned |-> FALSE, err |-> traces.err, new |-> process, sample |-> traces]

\* the outer match with the smoke test left out
attempted_without_smoke_test(env, process) ==
    IF process.ok
    THEN [returned |-> TRUE, process |-> process.val,
          new |-> process, sample |-> NotSampled]
    ELSE [returned |-> FALSE, err |-> process.err,
          new |-> process, sample |-> NotSampled]

\* the outer match, on new's result
attempted(env, process) ==
    IF process.ok
    THEN smoke_tested(process, get_stack_traces(process.val, env.mem))
    ELSE [returned |-> FALSE, err |-> process.err,
          new |-> process, sample |-> NotSampled]

retry_new_attempt(pid, env) == attempted(env, new(pid, env))

(***************************************************************************)
(* The scan harness: a target whose memory is any combination of mapped    *)
(* addresses, interpreter and thread cells and BSS words, and one          *)
(* check_addresses over its main binary.                                   *)
(***************************************************************************)
Addr == {1, 2}

Ptr == {0} \cup Addr

MaxBssWords == 2

BssWords == UNION {[1..n -> Ptr] : n \in 0..MaxBssWords}

NoSymbols == {}

MainBinary(symbols) == [name |-> "main", symbols |-> symbols]

LibBinary(symbols) == [name |-> "lib", symbols |-> symbols]

ScanThreadCells ==
    {NoCell} \cup {ThreadCell(i, 1, 0, f) : i \in Ptr, f \in BOOLEAN}

ScanInterpCells == {NoCell} \cup {InterpCell(h) : h \in Ptr}

ScanTargets ==
    { [handle |-> TRUE,
       python_info |-> Ok([python_binary |-> MainBinary(NoSymbols),
                           libpython_binary |-> None,
                           maps |-> maps,
                           python_filename |-> <<"/", "b", "i", "n", "/", "p">>]),
       mem |-> [bss |-> [b \in {"main"} |-> BssCell(<<>>, words)],
                ptr |-> <<>>,
                interp |-> interp,
                thread |-> thread]] :
          maps \in SUBSET Addr, words \in BssWords,
          interp \in [Addr -> ScanInterpCells], thread \in [Addr -> ScanThreadCells] }

NoTarget == [handle |-> FALSE]

IdleSession ==
    /\ pc = "start"
    /\ caller = "none"
    /\ session = None
    /\ built = None
    /\ max_retries = 0
    /\ retries = 0
    /\ attempts = 0
    /\ attempt = [new |-> NotRun, sample |-> NotSampled]
    /\ openRet = NotRun
    /\ sampleRet = NotSampled
    /\ failedBefore = FALSE

IdleVersion ==
    /\ subject = [major |-> 0, minor |-> 0, patch |-> 0, release_flags |-> <<>>]
    /\ buf = <<>>
    /\ scanned = NotRun

IdleShorten ==
    /\ filename = <<>>
    /\ shortened = NotRun

InitScan ==
    /\ target \in ScanTargets
    /\ scanRet = NotRun
    /\ IdleSession
    /\ IdleVersion
    /\ IdleShorten

ScanBss ==
    /\ scanRet = NotRun
    /\ \E I \in Layouts :
         scanRet' = check_addresses(target.python_info.val.python_binary,
                                    target.python_info.val.maps, target.mem, I)
    /\ UNCHANGED <<target, sessionVars, versionVars, shortenVars>>

NextScan == ScanBss

SpecScan == InitScan /\ [][NextScan]_vars

\* C7: every address the BSS scan returns lies in the process map, holds a
\* readable InterpreterState whose head() lies in the process map and is a
\* readable ThreadState whose interp() is that very address, and a full stack
\* walk from that InterpreterState succeeds.
InterpreterRootValidated ==
    scanRet.ok =>
        LET p == scanRet.val
            maps == target.python_info.val.maps
            mem == target.mem
        IN  /\ p \in maps
            /\ mem.interp[p].readable
            /\ LET t == mem.interp[p].head
               IN  /\ t \in maps
                   /\ mem.thread[t].readable
                   /\ mem.thread[t].interp = p
                   /\ walk_stack_traces(mem.interp[p], mem).ok

\* a scan that returned the second word of the BSS after rejecting, for a
\* missing back-reference, a first word that passed every other check
InterpreterRootValidatedWitness ==
    /\ scanRet.ok
    /\ Len(target.mem.bss["main"].words) = 2
    /\ scanRet.val = target.mem.bss["main"].words[2]
    /\ scanRet.val # target.mem.bss["main"].words[1]
    /\ target.mem.bss["main"].words[1] \in target.python_info.val.maps
    /\ target.mem.interp[target.mem.bss["main"].words[1]].readable
    /\ target.mem.interp[target.mem.bss["main"].words[1]].head
           \in target.python_info.val.maps
    /\ target.mem.thread[target.mem.interp[target.mem.bss["main"].words[1]].head]
           .readable

(***************************************************************************)
(* The version harness: a Version, its printed form followed by some       *)
(* bytes, and the result of scanning that.                                 *)
(***************************************************************************)
SubjectMajors == {2, 3, 9, 10}

SubjectMinors == {0, 7, 10}

SubjectPatches == {0, 5, 10, 99, 100}

SubjectFlags ==
    { <<>>, <<"a", "1">>, <<"b", "1", "2">>, <<"c", "0">>, <<"r", "c", "1">>,
      <<"r", "c", "1", "2">>, <<"a", "U+0663">>, <<"x", "1">>, <<"r", "c">>,
      <<"r", "c", "1", "2", "3">>, <<"1">> }

Subjects ==
    [major : SubjectMajors, minor : SubjectMinors, patch : SubjectPatches,
     release_flags : SubjectFlags]

\* what follows the printed form in the scanned buffer
Followers ==
    { <<>>, <<" ">>, <<" ", "(">>, <<" ", "\n">>, <<"(">>, <<" ", "5">>,
      <<" ", "(", "\n", "2", ".", "7", ".", "1", " ", "x">> }

InitVersion ==
    /\ target = NoTarget
    /\ scanRet = NotRun
    /\ IdleSession
    /\ subject \in Subjects
    /\ buf \in {fmt(subject) \o f : f \in Followers}
    /\ scanned = NotRun
    /\ IdleShorten

ScanPrinted ==
    /\ scanned = NotRun
    /\ scanned' = scan_bytes(buf)
    /\ UNCHANGED <<subject, buf, scanVars, sessionVars, shortenVars>>

NextVersion == ScanPrinted

SpecVersion == InitVersion /\ [][NextVersion]_vars

\* release flags the regex's group 5 can capture: none, or a|b|c|rc and 1-2 digits
ValidFlags(f) ==
    \/ f = <<>>
    \/ \E l \in {<<"a">>, <<"b">>, <<"c">>, <<"r", "c">>}, n \in 1..2 :
          /\ Len(f) = Len(l) + n
          /\ SubSeq(f, 1, Len(l)) = l
          /\ \A i \in (Len(l) + 1)..Len(f) : IsDigit(f[i])

\* a Version the regex's groups can spell: one-digit major and minor, patch < 100
ValidSubject(v) ==
    v.major <= 9 /\ v.minor <= 9 /\ v.patch <= 99 /\ ValidFlags(v.release_flags)

\* the buffer is the printed form, a space, and a character that is no newline
FollowedByText ==
    /\ Len(buf) >= Len(fmt(subject)) + 2
    /\ SubSeq(buf, 1, Len(fmt(subject))) = fmt(subject)
    /\ buf[Len(fmt(subject)) + 1] = " "
    /\ IsAny(buf[Len(fmt(subject)) + 2])

\* C10 as stated: scanning the bytes of a Version's printed form succeeds and
\* yields a Version equal to it.
PrintedFormRoundTrip ==
    (scanned # NotRun /\ buf = fmt(subject)) => scanned = Ok(subject)

\* C10 amended: for a Version with one-digit major and minor, a patch below 100
\* and release flags that are empty or a|b|c|rc with 1-2 digits, scanning the
\* printed form followed by a space and a character other than a newline
\* succeeds and yields a Version equal to it.
FollowedPrintedFormRoundTrip ==
    (scanned # NotRun /\ ValidSubject(subject) /\ FollowedByText)
        => scanned = Ok(subject)

\* a two-digit patch with a release candidate suffix has made the round trip
FollowedPrintedFormRoundTripWitness ==
    /\ scanned = Ok(subject)
    /\ FollowedByText
    /\ subject.patch = 99
    /\ subject.release_flags = <<"r", "c", "1", "2">>

(***************************************************************************)
(* The caller of the session API: it constructs a PythonSpy with new or    *)
(* with retry_new (one loop iteration per step, the 20 ms sleep between    *)
(* two of them a step of its own) and then samples it any number of times. *)
(* The target is not stopped: every operation sees the target as it is     *)
(* then.                                                                   *)
(***************************************************************************)
Pids == {4242}

Open(targets) ==
    /\ pc = "start"
    /\ \E pid \in Pids, env \in targets :
         LET process == new(pid, env)
         IN  /\ target' = env
             /\ caller' = "new"
             /\ openRet' = process
             /\ pc' = IF process.ok THEN "opened" ELSE "failed"
             /\ session' = IF process.ok THEN Some(process.val) ELSE None
             /\ built' = IF process.ok THEN Some(process.val) ELSE None
    /\ UNCHANGED <<max_retries, retries, attempts, attempt, sampleRet,
                   failedBefore, scanRet, versionVars, shortenVars>>

MaxRetriesArg == 3

CallRetryNew ==
    /\ pc = "start"
    /\ \E m \in 0..MaxRetriesArg : max_retries' = m
    /\ retries' = 0
    /\ caller' = "retry_new"
    /\ pc' = "retrying"
    /\ UNCHANGED <<target, session, built, attempts, attempt, openRet, sampleRet,
                   failedBefore, scanRet, versionVars, shortenVars>>

Attempt(targets) ==
    /\ pc = "retrying"
    /\ \E pid \in Pids, env \in targets :
         LET a == retry_new_attempt(pid, env)
         IN  /\ target' = env
             /\ attempt' = [new |-> a.new, sample |-> a.sample]
             /\ attempts' = attempts + 1
             /\ IF a.returned
                THEN /\ openRet' = Ok(a.process)
                     /\ session' = Some(a.process)
                     /\ built' = Some(a.process)
                     /\ pc' = "opened"
                     /\ retries' = retries
                ELSE /\ retries' = retries + 1
                     /\ IF retries + 1 >= max_retries
                        THEN openRet' = Err(a.err) /\ pc' = "failed"
                        ELSE openRet' = openRet /\ pc' = "sleeping"
                     /\ UNCHANGED <<session, built>>
    /\ UNCHANGED <<caller, max_retries, sampleRet, failedBefore, scanRet, versionVars, shortenVars>>

Sleep ==
    /\ pc = "sleeping"
    /\ pc' = "retrying"
    /\ UNCHANGED <<target, caller, session, built, max_retries, retries, attempts,
                   attempt, openRet, sampleRet, failedBefore, scanRet, versionVars, shortenVars>>

Sample(mems) ==
    /\ pc = "opened"
    /\ \E mem \in mems :
         LET ret == get_stack_traces(session.val, mem)
         IN  /\ target' = IF mem = target.mem THEN target
                        ELSE [handle |-> TRUE, mem |-> mem]
             /\ sampleRet' = ret
             /\ session' = Some(SessionAfterSample(session.val, ret))
             /\ failedBefore' = (failedBefore \/ (~ret.ok /\ ret.err # UnsupportedVersion))
    /\ UNCHANGED <<pc, caller, built, max_retries, retries, attempts, attempt,
                   openRet, scanRet, versionVars, shortenVars>>

(***************************************************************************)
(* The targets of the lifecycle: a main binary exporting any subset of the *)
(* three symbols, a BSS with or without a version string and with or       *)
(* without a pointer to the interpreter, and an interpreter at address 1   *)
(* whose one thread, at address 2, points back to it.                      *)
(***************************************************************************)
SymbolTable ==
    { [name |-> "interp_head", addr |-> 40],
      [name |-> "_PyThreadState_Current", addr |-> 60],
      [name |-> "_PyRuntime", addr |-> 100] }

SymbolAddrs == {40, 60, 100, 124}

PythonFilename == <<"/", "o", "/", "b", "i", "n", "/", "p", "y">>

VersionText(v) == <<"P", " ">> \o fmt(v) \o <<" ", "(">>

LifeVersions ==
    { [major |-> 2, minor |-> 7, patch |-> 15, release_flags |-> <<>>],
      [major |-> 3, minor |-> 6, patch |-> 6, release_flags |-> <<>>],
      [major |-> 3, minor |-> 7, patch |-> 0, release_flags |-> <<"r", "c", "1">>],
      [major |-> 3, minor |-> 9, patch |-> 0, release_flags |-> <<>>] }

LifeTexts == {VersionText(v) : v \in LifeVersions} \cup {<<"P", " ", "(">>}

GoodInterp == [a \in Addr |-> IF a = 1 THEN InterpCell(2) ELSE NoCell]

GoodThread == [a \in Addr |-> IF a = 2 THEN ThreadCell(1, 1, 0, TRUE) ELSE NoCell]

\* a target: the symbols the main binary exports, its BSS as text and as
\* words, and the word behind interp_head and _PyRuntime.interpreters.head
LifeTarget(symbols, text, words, root) ==
    [handle |-> TRUE,
     python_info |-> Ok([python_binary |-> MainBinary(symbols),
                         libpython_binary |-> None,
                         maps |-> Addr,
                         python_filename |-> PythonFilename]),
     mem |-> [bss |-> [b \in {"main"} |-> BssCell(text, words)],
              version_bytes |-> <<>>,
              ptr |-> [a \in SymbolAddrs |->
                         IF a \in {40, 124} THEN root
                         ELSE IF a = 60 THEN PtrCell(2) ELSE PtrCell(0)],
              interp |-> GoodInterp,
              thread |-> GoodThread]]

NoHandleTarget == [handle |-> FALSE]

NoBinaryTarget == [handle |-> TRUE, python_info |-> Err("Couldn't find python binary")]

OpenTargets ==
    { LifeTarget(symbols, text, words, root) :
        symbols \in SUBSET SymbolTable, text \in LifeTexts,
        words \in {<<>>, <<1>>}, root \in {NoCell, PtrCell(1), PtrCell(2)} }
    \cup {NoHandleTarget, NoBinaryTarget}

RetryTargets ==
    { LifeTarget(symbols, text, <<>>, root) :
        symbols \in {SymbolTable}, text \in LifeTexts,
        root \in {PtrCell(1), PtrCell(2)} }
    \cup {NoHandleTarget}

MaxThreadId == 1

ThreadIds == 0..MaxThreadId

\* the memory a sample sees: the word behind _PyThreadState_Current, the
\* interpreter at address 1, whose first thread is at address 1, and a second
\* thread at address 2
FirstThreadCells ==
    {NoCell, ThreadCell(1, 1, 0, FALSE)}
        \cup {ThreadCell(1, id, n, TRUE) : id \in ThreadIds, n \in {0, 2}}

SecondThreadCells == {NoCell} \cup {ThreadCell(1, id, 0, TRUE) : id \in ThreadIds}

SampleMems ==
    { [ptr |-> [a \in {60} |-> gil],
       interp |-> [a \in Addr |-> IF a = 1 THEN interp ELSE NoCell],
       thread |-> [a \in Addr |-> IF a = 1 THEN first ELSE second]] :
        gil \in {NoCell} \cup {PtrCell(p) : p \in Ptr},
        interp \in {NoCell, InterpCell(1)},
        first \in FirstThreadCells, second \in SecondThreadCells }

Init ==
    /\ target = NoTarget
    /\ scanRet = NotRun
    /\ IdleSession
    /\ IdleVersion
    /\ IdleShorten

Next ==
    \/ Open(OpenTargets)
    \/ CallRetryNew
    \/ Attempt(RetryTargets)
    \/ Sleep
    \/ Sample(SampleMems)

Spec == Init /\ [][Next]_vars

\* the layout family the specification's dispatch table gives a version
ClaimedLayout(version) ==
    IF version.major = 2 /\ version.minor \in 3..7 THEN "v2_7_15"
    ELSE IF version.major = 3 /\ version.minor = 3 THEN "v3_3_7"
    ELSE IF version.major = 3 /\ version.minor \in 4..5 THEN "v3_5_5"
    ELSE IF version.major = 3 /\ version.minor = 6 THEN "v3_6_6"
    ELSE IF version.major = 3 /\ version.minor \in 7..8 THEN "v3_7_0"
    ELSE NoLayout

\* the traces of the last sample that are marked as holding the GIL
GilHolders == {i \in 1..Len(sampleRet.val) : sampleRet.val[i].owns_gil}

\* C1: whatever thread ids the walked chain contains and whatever is read
\* through threadstate_address, the traces a successful get_stack_traces
\* returns contain at most one trace with owns_gil = true.
AtMostOneGilHolder ==
    sampleRet.ok => Cardinality(GilHolders) <= 1

\* the last sample knew no GIL holder: the session has no threadstate_address,
\* or the pointer read through it was null
NoKnownHolder ==
    \/ session.val.threadstate_address = 0
    \/ /\ session.val.threadstate_address \in DOMAIN target.mem.ptr
       /\ target.mem.ptr[session.val.threadstate_address] = PtrCell(0)

\* C2: when _PyThreadState_Current was not resolved at construction, or the
\* pointer read through it is null, no trace get_stack_traces returns has
\* owns_gil = true, whatever the thread ids of the target's threads.
NoHolderNoneMarked ==
    (sampleRet.ok /\ NoKnownHolder) => GilHolders = {}

\* C3: retry_new returns a session only when, in that iteration, new succeeded
\* and get_stack_traces on that very session succeeded; an iteration whose new
\* succeeds and whose sample fails returns no session.
SmokeTestBeforeSuccess ==
    /\ (caller = "retry_new" /\ pc = "opened") =>
          /\ attempt.new.ok
          /\ attempt.sample.ok
          /\ openRet = attempt.new
          /\ built = Some(attempt.new.val)
          /\ sampleRet = NotSampled =>
                /\ new(CHOOSE pid \in Pids : TRUE, target) = attempt.new
                /\ get_stack_traces(attempt.new.val, target.mem) = attempt.sample
    /\ (caller = "retry_new" /\ attempt.new.ok /\ ~attempt.sample.ok) =>
          /\ pc \in {"sleeping", "retrying", "failed"}
          /\ ~openRet.ok
          /\ session = None

\* retry_new has returned a session from its third iteration, after two that
\* failed, and the smoke test of that iteration returned a trace
SmokeTestBeforeSuccessWitness ==
    /\ caller = "retry_new"
    /\ pc = "opened"
    /\ attempts = 3
    /\ retries = 2
    /\ sampleRet = NotSampled
    /\ Len(attempt.sample.val) = 1

\* C4: when every iteration fails, retry_new makes max_retries + 1 attempts
\* (max_retries retries after the first) and then returns the last error.
RetryBudget ==
    (caller = "retry_new" /\ pc = "failed") =>
        /\ attempts = max_retries + 1
        /\ ~openRet.ok

\* the remote reads of a sample of the session in this memory all succeed:
\* the GIL pointer and the thread state behind it, the interpreter state, and
\* every thread state and frame chain of the thread list
RECURSIVE ChainReadable(_, _, _)
ChainReadable(mem, t, n) ==
    \/ t = 0
    \/ /\ n > 0
       /\ t \in DOMAIN mem.thread
       /\ mem.thread[t].readable
       /\ mem.thread[t].frames_ok
       /\ ChainReadable(mem, mem.thread[t].next, n - 1)

ReadsSucceed(self, mem) ==
    /\ self.threadstate_address > 0 =>
          /\ self.threadstate_address \in DOMAIN mem.ptr
          /\ mem.ptr[self.threadstate_address].readable
          /\ mem.ptr[self.threadstate_address].value # 0 =>
                /\ mem.ptr[self.threadstate_address].value \in DOMAIN mem.thread
                /\ mem.thread[mem.ptr[self.threadstate_address].value].readable
    /\ self.interpreter_address \in DOMAIN mem.interp
    /\ mem.interp[self.interpreter_address].readable
    /\ ChainReadable(mem, mem.interp[self.interpreter_address].head,
                     Cardinality(DOMAIN mem.thread))

UnsupportedRejectedAtOpen ==
    (/\ caller = "new"
     /\ pc \in {"opened", "failed"}
     /\ sampleRet = NotSampled
     /\ target.handle
     /\ target.python_info.ok
     /\ get_python_version(target.python_info.val, target.mem).ok
     /\ ClaimedLayout(get_python_version(target.python_info.val, target.mem).val)
            = NoLayout)
        => (~openRet.ok /\ openRet.err = UnsupportedVersion /\ session = None)

(***************************************************************************)
(* The dispatch harness: a target of any version the scan can detect is    *)
(* opened with new, the BSS scan of its main binary is made for the        *)
(* version of the session, as construction makes it, and the session is    *)
(* sampled on the memory it was constructed from.                          *)
(***************************************************************************)
DispatchVersions ==
    [major : 0..9, minor : 0..9, patch : {0, 15},
     release_flags : {<<>>, <<"r", "c", "1">>}]

DispatchSymbols ==
    { NoSymbols, {s \in SymbolTable : s.name \in {"interp_head", "_PyRuntime"}} }

DispatchTargets ==
    { LifeTarget(symbols, VersionText(v), words, PtrCell(1)) :
        symbols \in DispatchSymbols, v \in DispatchVersions,
        words \in {<<1>>, <<0, 1>>} }

\* get_interpreter_address_from_binary for the session's version, as new calls
\* it through get_interpreter_address when no symbol gives the address
ProbeScan ==
    /\ pc = "opened"
    /\ scanRet = NotRun
    /\ sampleRet = NotSampled
    /\ scanRet' = get_interpreter_address_from_binary(
                      target.python_info.val.python_binary,
                      target.python_info.val.maps, target.mem, session.val.version)
    /\ UNCHANGED <<target, sessionVars, versionVars, shortenVars>>

SampleTarget == Sample({target.mem})

NextDispatch ==
    \/ Open(DispatchTargets)
    \/ ProbeScan
    \/ SampleTarget

SpecDispatch == Init /\ [][NextDispatch]_vars

\* C5: get_stack_traces uses the 2.7 layout for 2.3-2.7, the 3.3 layout for
\* 3.3, the 3.5 layout for 3.4 and 3.5, the 3.6 layout for 3.6, the 3.7 layout
\* for 3.7 and 3.8, and for every other version returns the unsupported-version
\* error without a remote read; patch and release flags do not matter.
LayoutDispatchTable ==
    sampleRet # NotSampled =>
        /\ sampleRet.layout = ClaimedLayout(session.val.version)
        /\ ClaimedLayout(session.val.version) = NoLayout =>
              /\ ~sampleRet.ok
              /\ sampleRet.err = UnsupportedVersion
              /\ sampleRet.reads = <<>>
        /\ ClaimedLayout(session.val.version) # NoLayout =>
              /\ sampleRet.ok \/ sampleRet.err # UnsupportedVersion
              /\ sampleRet.reads # <<>>

\* a session of version 3.4.15rc1 has been sampled with the 3.5 layout
LayoutDispatchTableWitness ==
    /\ sampleRet.ok
    /\ sampleRet.layout = "v3_5_5"
    /\ session.val.version =
           [major |-> 3, minor |-> 4, patch |-> 15, release_flags |-> <<"r", "c", "1">>]

\* C9: the layout the BSS scan of construction is instantiated with is the
\* layout every later get_stack_traces of the session is instantiated with;
\* the two tables agree on every version, also on the unsupported ones.
OneLayoutPerSession ==
    /\ (scanRet # NotRun /\ sampleRet # NotSampled) =>
          /\ scanRet.layout = sampleRet.layout
          /\ (~scanRet.ok /\ scanRet.err = UnsupportedVersion)
                <=> (~sampleRet.ok /\ sampleRet.err = UnsupportedVersion)
    /\ \A v \in DispatchVersions : binary_layout(v) = stack_traces_layout(v)

\* a session of version 3.4, constructed through the BSS scan, whose scan and
\* whose sample both used the 3.5 layout and both succeeded
OneLayoutPerSessionWitness ==
    /\ scanRet.ok
    /\ sampleRet.ok
    /\ scanRet.layout = "v3_5_5"
    /\ session.val.version.minor = 4
    /\ target.python_info.val.python_binary.symbols = NoSymbols
    /\ scanRet.val = session.val.interpreter_address

(***************************************************************************)
(* The text harness: a buffer of bytes as the BSS may hold them, and the   *)
(* result of scanning it.  The buffers are the inputs of test_find_version *)
(* and texts put together from a prefix, a version-like text and a tail.   *)
(***************************************************************************)
TestAbsorbed ==
    <<"5", "3", ".", "7", ".", "0", "r", "c", "1", " ", "(", "v", "5", "3",
      ".", "7", ".", "0", "r", "c", "1", ":", "d", "f", "a", "d", "3", "5",
      "2", "2", "6", "7", ",", " ", "J", "u", "l", " ", "2", "0", " ", "2",
      "0", "1", "8", ",", " ", "1", "3", ":", "2", "7", ":", "5", "4", ")">>

TestUndotted == <<"3", ".", "7", " ", "1", "0", " ">>

TestSuffix == <<"3", ".", "7", ".", "1", "0", "f", "o", "o", "b", "o", "o", " ">>

TestPlain ==
    <<"2", ".", "7", ".", "1", "0", " ", "(", "d", "e", "f", "a", "u", "l",
      "t", ",", " ", "O", "c", "t", " ", " ", "6", " ", "2", "0", "1", "7",
      ",", " ", "2", "2", ":", "2", "9", ":", "0", "7", ")">>

TestCandidate ==
    <<"P", "y", "t", "h", "o", "n", " ", "3", ".", "7", ".", "0", "r", "c",
      "1", " ", "(", "v", "3", ".", "7", ".", "0", "r", "c", "1", ":", "d",
      "f", "a", "d", "3", "5", "2", "2", "6", "7", ",", " ", "J", "u", "l",
      " ", "2", "0", " ", "2", "0", "1", "8", ",", " ", "1", "3", ":", "2",
      "7", ":", "5", "4", ")">>

TextVersions ==
    [major : {2, 3}, minor : {7}, patch : {0, 10},
     release_flags : {<<>>, <<"r", "c", "1">>, <<"a", "1", "2">>}]

\* text with nothing version-like in it
PlainPrefixes == { <<>>, <<"P", " ">>, <<"v">>, <<"0xFF">>, <<"\n">> }

PlainTails == { <<>>, <<"(">>, <<"(", "d", "\n">> }

\* (a) the version-like text directly after a digit
AbsorbedInputs ==
    { pre \o <<dg>> \o fmt(v) \o <<" ">> \o tail :
        pre \in PlainPrefixes, dg \in {"5", "0", "U+0663"},
        v \in TextVersions, tail \in PlainTails \ {<<>>} }
    \cup {TestAbsorbed}

\* (b) major.minor, a space where the second dot belongs, and the patch
UndottedInputs ==
    { pre \o <<DigitChar(v.major), ".", DigitChar(v.minor), " ">>
          \o Decimal(v.patch) \o v.release_flags \o <<" ">> \o tail :
        pre \in PlainPrefixes, v \in TextVersions, tail \in PlainTails }
    \cup {TestUndotted}

\* what may follow the patch that is no (a|b|c|rc) with 1-2 digits and a space
Noises ==
    { <<"f", "o", "o", "b", "o", "o">>, <<"r", "c">>, <<"a">>, <<"x", "1">>,
      <<"a", "1", "2", "3">>, <<"r", "c", "1", "x">>, <<"r", "1">>, <<".", "x">>,
      <<"c", "a", "1">>, <<"-", "r", "c", "1">>, <<"0xFF">>, <<"\n">> }

\* (c) major.minor.patch and such a suffix, then a space
SuffixInputs ==
    { pre \o Decimal(v.major) \o <<".">> \o Decimal(v.minor) \o <<".">>
          \o Decimal(v.patch) \o noise \o <<" ">> \o tail :
        pre \in PlainPrefixes, v \in TextVersions, noise \in Noises,
        tail \in PlainTails }
    \cup {TestSuffix}

RejectedInputs == AbsorbedInputs \cup UndottedInputs \cup SuffixInputs

\* text before a version: plain, or version-like with a digit outside ASCII
ExtractPrefixes ==
    PlainPrefixes
        \cup { <<"U+0663", ".", "7", ".", "0", " ", "x", " ">>,
               <<"9", ".", "9", " ">>, <<"U+0663", " ">> }

\* text after a version and its space: plain, or with a later version in it
ExtractTails ==
    { <<"(">>, <<"(", "d", "\n">>, <<"x", " ", "2", ".", "7", ".", "3", " ", "y">>,
      <<"1">>, <<"\n">>, <<"0xFF">> }

\* versions also with a digit outside ASCII where the regex has \d
ExtractTexts ==
    {fmt(v) : v \in TextVersions}
        \cup { <<"U+0663", ".", "7", ".", "0">>, <<"3", ".", "7", ".", "U+0663">>,
               <<"3", ".", "7", ".", "0", "b", "U+0663">> }

ExtractInputs ==
    { pre \o text \o <<" ">> \o tail :
        pre \in ExtractPrefixes, text \in ExtractTexts, tail \in ExtractTails }

InitText ==
    /\ target = NoTarget
    /\ scanRet = NotRun
    /\ IdleSession
    /\ subject = [major |-> 0, minor |-> 0, patch |-> 0, release_flags |-> <<>>]
    /\ buf \in RejectedInputs \cup ExtractInputs \cup {TestPlain, TestCandidate}
    /\ scanned = NotRun
    /\ IdleShorten

ScanText ==
    /\ scanned = NotRun
    /\ scanned' = scan_bytes(buf)
    /\ UNCHANGED <<subject, buf, scanVars, sessionVars, shortenVars>>

NextText == ScanText

SpecText == InitText /\ [][NextText]_vars

\* C11: scan_bytes returns an error for every input whose only version-like
\* text directly follows a digit, or lacks the second dot, or has after the
\* patch a suffix that is not (a|b|c|rc) with 1-2 digits and then a space.
VersionRejected ==
    (scanned # NotRun /\ buf \in RejectedInputs) => ~scanned.ok

\* the three rejected inputs of test_find_version have been scanned
VersionRejectedWitness ==
    /\ scanned # NotRun
    /\ ~scanned.ok
    /\ buf \in {TestAbsorbed, TestUndotted, TestSuffix}
    /\ scanned.err = "failed to find version string"

(***************************************************************************)
(* The filename harness: a session's install path and version string, a    *)
(* filename of a frame, and what shorten_filename returns for it.          *)
(***************************************************************************)
ShortenFilenames ==
    { <<"/", "p", "/", "b", "i", "n", "/", "p", "y">>,
      <<"/", "o", "p", "t", "/", "p", "y", "/", "b", "i", "n", "/", "p", "y", "t", "h", "o", "n">>,
      <<"p", "y">> }

\* the sessions new builds for a binary at such a path
ShortenSessions ==
    { [pid |-> pid,
       version |-> v,
       interpreter_address |-> 1,
       threadstate_address |-> 0,
       python_filename |-> python_filename,
       python_install_path |-> python_install_path(python_filename),
       version_string |-> version_string(v)] :
        pid \in Pids, python_filename \in ShortenFilenames,
        v \in {u \in LifeVersions : u.minor = 7} }

\* what follows the install path in a filename, piece by piece
AfterPath == { <<>>, <<"/">>, <<"3">> }

LibPieces ==
    { <<>>, <<"l", "i", "b">>, <<"l", "i", "b", "/">>, <<"l", "i", "b", "6", "4", "/">>, <<"b", "i", "n", "/">> }

TagPieces(self) ==
    { <<>>, self.version_string, self.version_string \o <<"/">>,
      self.version_string \o <<"m", "/">> }

SitePieces ==
    { <<>>, <<"s", "i", "t", "e", "-", "p", "a", "c", "k", "a", "g", "e", "s">>,
      <<"s", "i", "t", "e", "-", "p", "a", "c", "k", "a", "g", "e", "s", "/">>,
      <<"s", "i", "t", "e", "-", "p", "a", "c", "k", "a", "g", "e", "s", "2", "/">> }

FilePieces == { <<>>, <<"r", "e", "q", "u", "e", "s", "t", "s", "/", "a", "p", "i", ".", "p", "y">> }

Filenames(self) ==
    { self.python_install_path \o a \o l \o t \o p \o f :
        a \in AfterPath, l \in LibPieces, t \in TagPieces(self),
        p \in SitePieces, f \in FilePieces }
    \cup { <<"/", "h", "o", "m", "e", "/", "u", "/", "a", ".", "p", "y">>, <<"a">> }

InitShorten ==
    /\ target = NoTarget
    /\ scanRet = NotRun
    /\ IdleVersion
    /\ \E self \in ShortenSessions :
          /\ session = Some(self)
          /\ built = Some(self)
          /\ openRet = Ok(self)
          /\ filename \in Filenames(self)
    /\ pc = "opened"
    /\ caller = "new"
    /\ max_retries = 0
    /\ retries = 0
    /\ attempts = 0
    /\ attempt = [new |-> NotRun, sample |-> NotSampled]
    /\ sampleRet = NotSampled
    /\ failedBefore = FALSE
    /\ shortened = NotRun

Shorten ==
    /\ shortened = NotRun
    /\ pc = "opened"
    /\ shortened' = shorten_filename(session.val, filename)
    /\ UNCHANGED <<filename, target, sessionVars, scanRet, versionVars>>

NextShorten == Shorten

SpecShorten == InitShorten /\ [][NextShorten]_vars

IsSuffix(r, f) ==
    Len(r) <= Len(f) /\ SubSeq(f, Len(f) - Len(r) + 1, Len(f)) = r

\* C12: for every session and every filename, also the install path itself
\* and a filename ending right after "lib", the version string or
\* "site-packages", shorten_filename returns normally and returns a suffix of
\* the filename.
ShortenTotalSuffix ==
    shortened # NotRun => (shortened.ok /\ IsSuffix(shortened.val, filename))

\* f without its first n characters
Drop(f, n) == SubSeq(f, n + 1, Len(f))

\* one step of the specification: strip the prefix when f starts with it
StripStep(f, prefix) ==
    IF StartsWith(f, prefix) THEN Drop(f, Len(prefix)) ELSE f

\* the specification's steps, each tried whether or not the one before
\* matched; the version string and "site-packages" go with their separator
ClaimedShorten(self, f) ==
    IF StartsWith(f, self.python_install_path)
    THEN StripStep(StripStep(StripStep(
             Drop(f, Len(self.python_install_path) + 1),
             <<"l", "i", "b", "/">>), self.version_string \o <<"/">>),
             <<"s", "i", "t", "e", "-", "p", "a", "c", "k", "a", "g", "e", "s", "/">>)
    ELSE f

\* C13: for a filename starting with the install path, shorten_filename strips
\* the path and the separator after it, then "lib/" if the rest starts with it,
\* then the version string if the rest starts with it, then "site-packages" if
\* the rest starts with it, every step tried whether or not the one before
\* matched; any other filename is returned unchanged.
ShortenSteps ==
    (shortened # NotRun /\ shortened.ok)
        => shortened.val = ClaimedShorten(session.val, filename)

(***************************************************************************)
(* The locate harness: the two steps of new that find the version and the  *)
(* interpreter, on a target with or without the interp_head and _PyRuntime *)
(* symbols, with or without a libpython, whose memory holds an interpreter *)
(* at 1 (its thread at 2) and another at 3 (its thread at 4); address 5 is *)
(* mapped and cannot be read.                                              *)
(***************************************************************************)
LocateAddr == 1..5

LocateInterp ==
    [a \in LocateAddr |->
        IF a = 1 THEN InterpCell(2) ELSE IF a = 3 THEN InterpCell(4) ELSE NoCell]

LocateThread ==
    [a \in LocateAddr |->
        IF a = 2 THEN ThreadCell(1, 1, 0, TRUE)
        ELSE IF a = 4 THEN ThreadCell(3, 1, 0, TRUE) ELSE NoCell]

LocateVersions ==
    LifeVersions
        \cup {[major |-> 3, minor |-> 8, patch |-> 0, release_flags |-> <<>>]}

LocateSymbols == SUBSET {s \in SymbolTable : s.name \in {"interp_head", "_PyRuntime"}}

LocateWords == { <<>>, <<1>>, <<0, 1>>, <<5, 1>>, <<3, 1>>, <<1, 5>>, <<5>> }

\* libpython: none, or one whose BSS is this cell
LocateLibs ==
    { [binary |-> None, bss |-> NoCell] }
    \cup { [binary |-> Some(LibBinary(NoSymbols)), bss |-> c] :
             c \in {NoCell} \cup {BssCell(<<>>, w) : w \in {<<>>, <<3>>, <<5>>}} }

LocateTargets ==
    { [handle |-> TRUE,
       python_info |-> Ok([python_binary |-> MainBinary(symbols),
                           libpython_binary |-> lib.binary,
                           maps |-> LocateAddr,
                           python_filename |-> PythonFilename]),
       mem |-> [bss |-> [b \in {"main", "lib"} |->
                           IF b = "main" THEN BssCell(VersionText(v), words)
                           ELSE lib.bss],
                version_bytes |-> <<>>,
                ptr |-> [a \in SymbolAddrs |->
                           IF a = 40 THEN head ELSE IF a = 124 THEN runtime
                           ELSE NoCell],
                interp |-> LocateInterp,
                thread |-> LocateThread]] :
        symbols \in LocateSymbols, lib \in LocateLibs, v \in LocateVersions,
        words \in LocateWords, head \in {NoCell, PtrCell(1)},
        runtime \in {NoCell, PtrCell(3)} }

InitLocate ==
    /\ target \in LocateTargets
    /\ scanRet = NotRun
    /\ IdleSession
    /\ IdleVersion
    /\ IdleShorten

\* the interpreter address for a version found
located(env, version) ==
    IF ~version.ok THEN Err(version.err)
    ELSE get_interpreter_address(env.python_info.val, env.mem, version.val)

\* let version = get_python_version(..)?;
\* let interpreter_address = get_interpreter_address(.., &version)?;
Locate ==
    /\ scanRet = NotRun
    /\ scanned = NotRun
    /\ scanned' = get_python_version(target.python_info.val, target.mem)
    /\ scanRet' = located(target, scanned')
    /\ UNCHANGED <<target, subject, buf, sessionVars, shortenVars>>

NextLocate == Locate

SpecLocate == InitLocate /\ [][NextLocate]_vars

\* the word behind an exported symbol of the target, offset added
Exported(symbol) ==
    get_symbol(target.python_info.val, symbol).some

WordBehind(symbol, offset) ==
    target.mem.ptr[get_symbol(target.python_info.val, symbol).val + offset]

\* C14: for every version of layout family 3.7 (3.7 and 3.8) the address is
\* the word at the _PyRuntime symbol plus 24; for every version of an earlier
\* family it is the word at the interp_head symbol.
SymbolByFamily ==
    (scanRet # NotRun /\ scanned.ok) =>
        /\ (/\ ClaimedLayout(scanned.val) = "v3_7_0"
            /\ Exported("_PyRuntime")
            /\ WordBehind("_PyRuntime", 24).readable)
              => scanRet = Ok(WordBehind("_PyRuntime", 24).value)
        /\ (/\ ClaimedLayout(scanned.val) \in Layouts \ {"v3_7_0"}
            /\ Exported("interp_head")
            /\ WordBehind("interp_head", 0).readable)
              => scanRet = Ok(WordBehind("interp_head", 0).value)

\* strategy B on one binary of the target: its BSS scan for the version found
ScanOf(binary) ==
    get_interpreter_address_from_binary(binary, target.python_info.val.maps,
                                        target.mem, scanned.val)

\* the scan of the main binary and, when there is one, of libpython both fail
ScanningFails ==
    /\ ~ScanOf(target.python_info.val.python_binary).ok
    /\ target.python_info.val.libpython_binary.some
          => ~ScanOf(target.python_info.val.libpython_binary.val).ok

\* C15: whatever way the symbolic strategy fails (no symbol, or a symbol the
\* read through which fails), the BSS scan of the main binary and then of
\* libpython is tried: get_interpreter_address fails only when the scans fail
\* too.
SymbolicFailureFallsBack ==
    (scanRet # NotRun /\ scanned.ok /\ ~scanRet.ok) => ScanningFails

\* the words of a binary's BSS, none when it cannot be read
WordsOf(binary) ==
    IF copy_bss(target.mem, binary).ok
    THEN copy_bss(target.mem, binary).val.words
    ELSE <<>>

\* p passes every validation stage of the scan
ValidRoot(p, maps, mem) ==
    /\ p \in maps
    /\ p \in DOMAIN mem.interp
    /\ mem.interp[p].readable
    /\ mem.interp[p].head \in maps
    /\ mem.interp[p].head \in DOMAIN mem.thread
    /\ mem.thread[mem.interp[p].head].readable
    /\ mem.thread[mem.interp[p].head].interp = p
    /\ walk_stack_traces(mem.interp[p], mem).ok

\* C16: a candidate word whose InterpreterState or ThreadState cannot be read
\* is rejected without surfacing the error and the later words are still
\* examined: a valid interpreter pointer after it is found, and the only error
\* of the scan is that no interpreter was found.
BadCandidateSkipped ==
    scanRet # NotRun =>
        /\ (\E i \in 1..Len(WordsOf(target.python_info.val.python_binary)) :
               ValidRoot(WordsOf(target.python_info.val.python_binary)[i],
                         target.python_info.val.maps, target.mem))
              => scanRet.ok
        /\ ~scanRet.ok =>
              scanRet.err = "Failed to find a python interpreter in the .data section"

\* the pattern of the specification at s: after a non-digit or at the start,
\* digit '.' digit '.' pl digits of patch, fl characters of release flags,
\* a space, a character
OccursAt(d, s, pl, fl) ==
    /\ s = 1 \/ IsNonDigit(At(d, s - 1))
    /\ IsDigit(At(d, s))
    /\ At(d, s + 1) = "."
    /\ IsDigit(At(d, s + 2))
    /\ At(d, s + 3) = "."
    /\ \A i \in 0..(pl - 1) : IsDigit(At(d, s + 4 + i))
    /\ s + 3 + pl + fl <= Len(d)
    /\ ValidFlags(SubSeq(d, s + 4 + pl, s + 3 + pl + fl))
    /\ At(d, s + 4 + pl + fl) = " "
    /\ IsAny(At(d, s + 5 + pl + fl))

Occurs(d, s) == \E pl \in 1..2, fl \in 0..4 : OccursAt(d, s, pl, fl)

\* the number a digit stands for
DigitValue(c) ==
    IF c \in AsciiDigit THEN CHOOSE n \in 0..9 : DigitChar(n) = c ELSE 3

\* the Version the occurrence at s spells
Spelled(d, s, pl, fl) ==
    [major |-> DigitValue(d[s]),
     minor |-> DigitValue(d[s + 2]),
     patch |-> IF pl = 1 THEN DigitValue(d[s + 4])
               ELSE 10 * DigitValue(d[s + 4]) + DigitValue(d[s + 5]),
     release_flags |-> SubSeq(d, s + 4 + pl, s + 3 + pl + fl)]

\* C18: whenever the buffer holds an occurrence of the pattern, scan_bytes
\* succeeds and returns major, minor, patch and release flags of the leftmost
\* one (release flags empty when the optional group is absent), whatever the
\* text before and after it.
VersionExtracted ==
    scanned # NotRun =>
        \A s \in 1..Len(buf), pl \in 1..2, fl \in 0..4 :
            (OccursAt(buf, s, pl, fl) /\ \A e \in 1..(s - 1) : ~Occurs(buf, e))
                => scanned = Ok(Spelled(buf, s, pl, fl))

(***************************************************************************)
(* The detect harness: get_python_version on a target with or without the  *)
(* Py_GetVersion.version symbol and with or without a libpython; each of   *)
(* the three sources holds a text or cannot be read.                       *)
(***************************************************************************)
VersionSymbol == [name |-> "Py_GetVersion.version", addr |-> 80]

DetectTexts ==
    { <<"P", " ", "(">>,
      VersionText([major |-> 2, minor |-> 7, patch |-> 15, release_flags |-> <<>>]),
      VersionText([major |-> 3, minor |-> 6, patch |-> 6, release_flags |-> <<"b", "1">>]),
      <<"3", ".", "7", ".", "0", " ", "x", " ", "2", ".", "7", ".", "3", " ", "y">>,
      <<"U+0663", ".", "7", ".", "0", " ", "x", " ", "3", ".", "6", ".", "6", " ", "(">> }

\* a source: unreadable, or readable with a text
DetectCells == {NoCell} \cup {BssCell(t, <<>>) : t \in DetectTexts}

DetectTargets ==
    { [handle |-> TRUE,
       python_info |-> Ok([python_binary |-> MainBinary(symbols),
                           libpython_binary |-> lib,
                           maps |-> Addr,
                           python_filename |-> PythonFilename]),
       mem |-> [bss |-> [b \in {"main", "lib"} |->
                           IF b = "main" THEN main ELSE shared],
                version_bytes |-> [a \in {VersionSymbol.addr} |-> bytes],
                ptr |-> <<>>,
                interp |-> GoodInterp,
                thread |-> GoodThread]] :
        symbols \in {NoSymbols, {VersionSymbol}},
        lib \in {None, Some(LibBinary(NoSymbols))},
        main \in DetectCells, shared \in DetectCells, bytes \in DetectCells }

InitDetect ==
    /\ target \in DetectTargets
    /\ scanRet = NotRun
    /\ IdleSession
    /\ IdleVersion
    /\ IdleShorten

Detect ==
    /\ scanned = NotRun
    /\ scanned' = get_python_version(target.python_info.val, target.mem)
    /\ UNCHANGED <<target, subject, buf, scanRet, sessionVars, shortenVars>>

NextDetect == Detect

SpecDetect == InitDetect /\ [][NextDetect]_vars

\* a source that can be read and holds an occurrence of the pattern
HoldsVersion(cell) ==
    cell.readable /\ \E s \in 1..Len(cell.text) : Occurs(cell.text, s)

\* the Version of the leftmost occurrence in a text
FirstVersion(d) ==
    LET s == CHOOSE x \in 1..Len(d) : Occurs(d, x) /\ \A e \in 1..(x - 1) : ~Occurs(d, e)
        m == CHOOSE m \in (1..2) \X (0..4) : OccursAt(d, s, m[1], m[2])
    IN  Spelled(d, s, m[1], m[2])

\* C17: with the version symbol, only the 128 bytes behind it are scanned and
\* neither BSS is read; without it the main binary's BSS is scanned first and
\* its first match returned, and libpython's BSS is read and scanned only when
\* the main scan found none and there is a libpython; the call fails exactly
\* when the sources consulted this way hold no match.
VersionSourceOrder ==
    scanned # NotRun =>
        LET info == target.python_info.val
            main == target.mem.bss["main"]
            shared == target.mem.bss["lib"]
            bytes == target.mem.version_bytes[VersionSymbol.addr]
        IN  IF VersionSymbol \in info.python_binary.symbols
            THEN IF HoldsVersion(bytes)
                 THEN scanned = Ok(FirstVersion(bytes.text))
                 ELSE ~scanned.ok
            ELSE IF HoldsVersion(main)
            THEN scanned = Ok(FirstVersion(main.text))
            ELSE IF main.readable /\ info.libpython_binary.some /\ HoldsVersion(shared)
            THEN scanned = Ok(FirstVersion(shared.text))
            ELSE ~scanned.ok

\* the BSS of the binary can be read and one of its words is a valid root
HasValidRoot(binary) ==
    \E i \in 1..Len(WordsOf(binary)) :
        ValidRoot(WordsOf(binary)[i], target.python_info.val.maps, target.mem)

\* the first word of the binary's BSS that passes every validation stage
FirstValidRoot(binary) ==
    WordsOf(binary)[CHOOSE i \in 1..Len(WordsOf(binary)) :
        /\ ValidRoot(WordsOf(binary)[i], target.python_info.val.maps, target.mem)
        /\ \A j \in 1..(i - 1) :
              ~ValidRoot(WordsOf(binary)[j], target.python_info.val.maps, target.mem)]

\* C19: the scan returns the first word of the BSS, in address order, that
\* passes all validation stages, whatever the words after it; libpython's BSS
\* is scanned only after the main binary's scan has failed, so a valid
\* candidate in the main BSS wins over one in libpython's; when both scans
\* fail the error is that of libpython's scan.
ScanOrderAndPrecedence ==
    (/\ scanRet # NotRun
     /\ scanned.ok
     /\ ClaimedLayout(scanned.val) # NoLayout
     /\ target.python_info.val.python_binary.symbols = NoSymbols) =>
        LET info == target.python_info.val
        IN  IF HasValidRoot(info.python_binary)
            THEN scanRet = Ok(FirstValidRoot(info.python_binary))
            ELSE IF info.libpython_binary.some
            THEN IF HasValidRoot(info.libpython_binary.val)
                 THEN scanRet = Ok(FirstValidRoot(info.libpython_binary.val))
                 ELSE /\ ~scanRet.ok
                      /\ scanRet.err = ScanOf(info.libpython_binary.val).err
            ELSE ~scanRet.ok

\* the word behind _PyThreadState_Current can be read
GilPointerReadable(self, mem) ==
    /\ self.threadstate_address \in DOMAIN mem.ptr
    /\ mem.ptr[self.threadstate_address].readable

\* one of the two GIL reads of a sample of the session in this memory fails
GilReadFails(self, mem) ==
    /\ self.threadstate_address > 0
    /\ \/ ~GilPointerReadable(self, mem)
       \/ /\ mem.ptr[self.threadstate_address].value # 0
          /\ \/ mem.ptr[self.threadstate_address].value \notin DOMAIN mem.thread
             \/ ~mem.thread[mem.ptr[self.threadstate_address].value].readable

\* the interpreter state and every thread of its list can be read
WalkWouldSucceed(self, mem) ==
    /\ self.interpreter_address \in DOMAIN mem.interp
    /\ mem.interp[self.interpreter_address].readable
    /\ ChainReadable(mem, mem.interp[self.interpreter_address].head,
                     Cardinality(DOMAIN mem.thread))

GilReads == {"gil_pointer", "gil_threadstate"}

WalkReads == {"interpreter", "walk"}

\* C20: in every sample that reaches a layout, the read of
\* _PyThreadState_Current and of the thread state behind it come before the
\* read of the interpreter state and before the walk; when one of the two GIL
\* reads fails the sample returns an error without having read the interpreter
\* state or walked a thread; when threadstate_address is 0 no GIL read is
\* issued.
GilLookupGatesWalk ==
    (pc = "opened" /\ sampleRet # NotSampled /\ sampleRet.layout # NoLayout) =>
        LET self == session.val
            reads == sampleRet.reads
        IN  /\ \A i, j \in 1..Len(reads) :
                  (reads[i] \in GilReads /\ reads[j] \in WalkReads) => i < j
            /\ self.threadstate_address > 0 =>
                  /\ reads[1] = "gil_pointer"
                  /\ (GilPointerReadable(self, target.mem)
                        /\ target.mem.ptr[self.threadstate_address].value # 0) =>
                          (Len(reads) >= 2 /\ reads[2] = "gil_threadstate")
                  /\ ~GilReadFails(self, target.mem) =>
                          \E j \in 1..Len(reads) : reads[j] = "interpreter"
            /\ GilReadFails(self, target.mem) =>
                  /\ ~sampleRet.ok
                  /\ \A j \in 1..Len(reads) : reads[j] \notin WalkReads
            /\ self.threadstate_address = 0 =>
                  /\ \A j \in 1..Len(reads) : reads[j] \notin GilReads
                  /\ reads[1] = "interpreter"

\* a sample failed on the read of the thread state behind
\* _PyThreadState_Current although the interpreter state and its threads were
\* readable
GilLookupGatesWalkWitness ==
    /\ pc = "opened"
    /\ sampleRet # NotSampled
    /\ sampleRet.layout # NoLayout
    /\ session.val.threadstate_address > 0
    /\ GilPointerReadable(session.val, target.mem)
    /\ GilReadFails(session.val, target.mem)
    /\ WalkWouldSucceed(session.val, target.mem)
    /\ ~sampleRet.ok
    /\ sampleRet.reads = <<"gil_pointer", "gil_threadstate">>

====
